---------------------------- MODULE Spec2Model ----------------------------
(***************************************************************************)
(* Model of git_helm_secrets.py: main(), ValuesEncryptor.encrypt_values    *)
(* and ValuesEncryptor.encrypt_file, over a small file system.             *)
(*                                                                         *)
(* Path strings are sequences of one-character strings, so that Python's   *)
(* str.endswith, `in` and str.replace are computed character by character. *)
(* The file system maps a path string to "dir" or to the content class of  *)
(* a regular file.                                                         *)
(***************************************************************************)
EXTENDS Integers, Sequences, FiniteSets, TLC

VARIABLES
    fs,               \* file system: path string -> "dir" | "plain" | "enc" | "empty"
    fs0,              \* the file system when the current run started
    argv,             \* command line: [dir, age_key], age_key None without --age-key
    environ,          \* value of the environment variable AGE_KEY, None when unset
    pc,               \* position of main: "start" | "walk" | "done" | "exit1" | "exit0" | "crashed"
    stack,            \* active encrypt_values calls on directories, innermost last
    encrypted_files,  \* ValuesEncryptor.encrypted_files
    log,              \* encrypt_file invocations of this run, in order
    listed,           \* directories passed to os.listdir in this run
    ret,              \* the latest return of an encrypt_values call (call = 0: none yet)
    out,              \* what main printed: set of "error" | "checking" | "summary"
    reported,         \* the count printed in the summary, NoCount before
    exit_code,        \* process exit status, Running before
    calls,            \* top-level encrypt_values calls made on the encryptor
    run,              \* number of the current run of the tool
    prev              \* how the previous run ended and the destinations it wrote

vars == <<fs, fs0, argv, environ, pc, stack, encrypted_files, log, listed, ret,
          out, reported, exit_code, calls, run, prev>>

---------------------------------------------------------------------------
(* String literals of the program *)

SLASH == <<"/">>
DOT_YAML == <<".", "y", "a", "m", "l">>
DOT_ENC_YAML == <<".", "e", "n", "c", ".", "y", "a", "m", "l">>
VALUES_DOT == <<"v", "a", "l", "u", "e", "s", ".">>
VALUES_ENC_YAML == <<"v", "a", "l", "u", "e", "s", ".", "e", "n", "c", ".", "y", "a", "m", "l">>

None == "<None>"
NoCount == "<none>"
Running == "<running>"
NoReturn == [path |-> <<>>, value |-> 0, top |-> FALSE, call |-> 0, during |-> 0, total |-> 0]

---------------------------------------------------------------------------
(* Names of the bounded file-system universe *)

nValuesYaml == VALUES_DOT \o <<"y", "a", "m", "l">>
nValuesDevYaml == VALUES_DOT \o <<"d", "e", "v">> \o DOT_YAML
nValuesEncYaml == VALUES_ENC_YAML
nChartYaml == <<"c", "h", "a", "r", "t">> \o DOT_YAML
nReadmeMd == <<"R", "E", "A", "D", "M", "E", ".", "m", "d">>
nSub == <<"s", "u", "b">>
nValuesD == VALUES_DOT \o <<"d">>
nAYaml == <<"a">> \o DOT_YAML
nAEncYaml == <<"a">> \o DOT_ENC_YAML
nR == <<"r">>

FileNames == {nValuesYaml, nValuesDevYaml, nValuesEncYaml, nChartYaml, nReadmeMd}
DirNames == {nSub, nValuesD, nAYaml, nAEncYaml}
RootNames == {nR, nValuesYaml}
KeyArgs == {None, "", "age1pub"}
EnvKeys == {None, "age1env"}

MaxEntries == 3
MaxReuseEntries == 2
MaxRuns == 2

---------------------------------------------------------------------------
(* Python string operations *)

\* s.endswith(suffix)
EndsWith(s, suffix) ==
    /\ Len(s) >= Len(suffix)
    /\ SubSeq(s, Len(s) - Len(suffix) + 1, Len(s)) = suffix

\* sub in s
Contains(s, sub) ==
    \E i \in 1..(Len(s) - Len(sub) + 1) : SubSeq(s, i, i + Len(sub) - 1) = sub

\* s.replace(old, new): every non-overlapping occurrence, left to right
RECURSIVE Replace(_, _, _)
Replace(s, old, new) ==
    IF Len(s) < Len(old) THEN s
    ELSE IF SubSeq(s, 1, Len(old)) = old
         THEN new \o Replace(SubSeq(s, Len(old) + 1, Len(s)), old, new)
         ELSE <<s[1]>> \o Replace(Tail(s), old, new)

\* os.path.join(path, child) for a relative child
Join(path, child) ==
    IF EndsWith(path, SLASH) THEN path \o child ELSE path \o SLASH \o child

---------------------------------------------------------------------------
(* File system *)

Exists(f, p) == p \in DOMAIN f

\* os.path.exists in the place of os.path.isdir
IsDir_exists(f, p) == Exists(f, p)

\* os.path.isdir
IsDir(f, p) == Exists(f, p) /\ f[p] = "dir"

\* os.path.isfile
IsFile(f, p) == Exists(f, p) /\ f[p] # "dir"

\* position of the last "/" of p, 0 when there is none
LastSlash(p) ==
    LET S == {i \in 1..Len(p) : p[i] = "/"}
    IN  IF S = {} THEN 0 ELSE CHOOSE i \in S : \A j \in S : j <= i

Dirname(p) == SubSeq(p, 1, LastSlash(p) - 1)
Basename(p) == SubSeq(p, LastSlash(p) + 1, Len(p))

\* os.listdir(p): the names of the entries directly in p
ListDir(f, p) ==
    {Basename(q) : q \in {q \in DOMAIN f : LastSlash(q) > 0 /\ Dirname(q) = p}}

\* open(p, 'wb') succeeds: the parent is a directory and p is not one
CanOpenWB(f, p) ==
    /\ LastSlash(p) = 0 \/ IsDir(f, Dirname(p))
    /\ ~IsDir(f, p)

\* the file system after open(p, 'wb'); f.write(content)
WriteFile(f, p, content) ==
    [q \in DOMAIN f \cup {p} |-> IF q = p THEN content ELSE f[q]]

---------------------------------------------------------------------------
(* Bounded directory trees under a root *)

\* the subsets of S with at most k elements
RECURSIVE KSubsets(_, _)
KSubsets(S, k) ==
    IF k = 0 THEN {{}}
    ELSE LET smaller == KSubsets(S, k - 1)
         IN  smaller \cup {s \cup {x} : s \in smaller, x \in S}

\* candidate entries <<path, kind>> below the directory root
Candidates(root) ==
    {<<Join(root, f), "plain">> : f \in FileNames}
    \cup {<<Join(root, d), "dir">> : d \in DirNames}
    \cup {<<Join(Join(root, d), f), "plain">> : d \in DirNames, f \in FileNames}

\* sets of at most k entries in which every entry's parent exists
Trees(root, k) ==
    {t \in KSubsets(Candidates(root), k) :
        \A e \in t : Dirname(e[1]) = root \/ <<Dirname(e[1]), "dir">> \in t}

MkFs(root, kind, t) ==
    LET paths == {root} \cup {e[1] : e \in t}
    IN  [p \in paths |-> IF p = root THEN kind
                         ELSE (CHOOSE e \in t : e[1] = p)[2]]

EmptyFs == [p \in {} |-> "dir"]

\* the file systems a run can start from: the root is a directory holding a
\* tree, a regular file, or missing
InitialFileSystems(root, k) ==
    {MkFs(root, "dir", t) : t \in Trees(root, k)}
    \cup {MkFs(root, "plain", {}), EmptyFs}

---------------------------------------------------------------------------
(* main: argument parsing *)

\* parser.parse_args(): --age-key defaults to os.environ.get('AGE_KEY')
ParseArgs(av, env) ==
    [dir |-> av.dir, age_key |-> IF av.age_key # None THEN av.age_key ELSE env]

args == ParseArgs(argv, environ)

\* args.age_key is None in the place of not args.age_key
KeyMissing_onlyNone(k) == k = None

\* not args.age_key
KeyMissing(k) == k = None \/ k = ""

---------------------------------------------------------------------------
(* ValuesEncryptor *)

\* the condition without its last conjunct
IsValuesFile_noExclusion(f, path) ==
    /\ IsFile(f, path)
    /\ EndsWith(path, DOT_YAML)
    /\ Contains(path, VALUES_DOT)

\* the condition of the first branch of encrypt_values
IsValuesFile(f, path) ==
    /\ IsFile(f, path)
    /\ EndsWith(path, DOT_YAML)
    /\ Contains(path, VALUES_DOT)
    /\ ~EndsWith(path, VALUES_ENC_YAML)

\* file_path.replace('.yaml', '.enc.yaml')
EncryptedFilePath(file_path) == Replace(file_path, DOT_YAML, DOT_ENC_YAML)

\* stdout of the sops process
ToolOutput(outcome) == IF outcome = "ok" THEN "enc" ELSE "empty"

ToolOutcomes == {"ok", "fail", "notool"}

MainFrame == "<main>"

Top == stack[Len(stack)]

\* the top frame with child removed from the children still to visit
Advance(child) ==
    [stack EXCEPT ![Len(stack)].todo = @ \ {child}]

\* destinations written by encrypt_file in this run
Written == {log[i].dest : i \in {j \in 1..Len(log) : log[j].wrote}}

\* paths passed to encrypt_file in this run
Invoked == {log[i].path : i \in 1..Len(log)}

Crash ==
    /\ pc' = "crashed"
    /\ exit_code' = 1
    /\ UNCHANGED <<fs, encrypted_files>>

\* encrypt_file counting a file only when the tool succeeded
encrypt_file_countsSuccess(file_path, outcome) ==
    LET dest == EncryptedFilePath(file_path)
        done == outcome # "notool" /\ CanOpenWB(fs, dest)
    IN  /\ log' = Append(log, [path |-> file_path, dest |-> dest,
                                tool |-> outcome, wrote |-> done])
        /\ IF done
           THEN /\ fs' = WriteFile(fs, dest, ToolOutput(outcome))
                /\ encrypted_files' = IF outcome = "ok" THEN encrypted_files + 1
                                      ELSE encrypted_files
                /\ UNCHANGED <<pc, exit_code>>
           ELSE Crash

\* encrypt_file with self.encrypted_files = 1 in the place of += 1
encrypt_file_setsOne(file_path, outcome) ==
    LET dest == EncryptedFilePath(file_path)
        done == outcome # "notool" /\ CanOpenWB(fs, dest)
    IN  /\ log' = Append(log, [path |-> file_path, dest |-> dest,
                                tool |-> outcome, wrote |-> done])
        /\ IF done
           THEN /\ fs' = WriteFile(fs, dest, ToolOutput(outcome))
                /\ encrypted_files' = 1
                /\ UNCHANGED <<pc, exit_code>>
           ELSE Crash

\* encrypt_file(file_path), the sops process ending with outcome
encrypt_file(file_path, outcome) ==
    LET dest == EncryptedFilePath(file_path)
        done == outcome # "notool" /\ CanOpenWB(fs, dest)
    IN  /\ log' = Append(log, [path |-> file_path, dest |-> dest,
                                tool |-> outcome, wrote |-> done])
        /\ IF done
           THEN /\ fs' = WriteFile(fs, dest, ToolOutput(outcome))
                /\ encrypted_files' = encrypted_files + 1
                /\ UNCHANGED <<pc, exit_code>>
           ELSE Crash

\* the record of encrypt_values(path) returning
Return(path, base, count, newlog) ==
    [path |-> path, value |-> count, top |-> path = args.dir,
     call |-> calls,
     during |-> Cardinality({j \in (base + 1)..Len(newlog) : newlog[j].wrote}),
     total |-> Cardinality({j \in 1..Len(newlog) : newlog[j].wrote})]

\* encrypt_values(child) for a matching file: encrypt_file, then return
VisitFile ==
    /\ pc = "walk"
    /\ \E child \in Top.todo, outcome \in ToolOutcomes :
        /\ IsValuesFile(fs, child)
        /\ encrypt_file(child, outcome)
        /\ stack' = Advance(child)
        /\ ret' = IF pc' = "walk"
                  THEN Return(child, Len(log), encrypted_files', log')
                  ELSE ret
    /\ UNCHANGED <<fs0, argv, environ, listed, out, reported, calls, run, prev>>

\* encrypt_values(child) for a directory: list it and start on its children
VisitDir ==
    /\ pc = "walk"
    /\ \E child \in Top.todo :
        /\ ~IsValuesFile(fs, child)
        /\ IsDir(fs, child)
        /\ listed' = listed \cup {child}
        /\ stack' = Append(Advance(child),
                           [path |-> child,
                            todo |-> {Join(child, n) : n \in ListDir(fs, child)},
                            base |-> Len(log)])
    /\ UNCHANGED <<fs, fs0, argv, environ, pc, encrypted_files, log, ret, out, reported,
                   exit_code, calls, run, prev>>

\* encrypt_values(child) for anything else: return at once
VisitSkip ==
    /\ pc = "walk"
    /\ \E child \in Top.todo :
        /\ ~IsValuesFile(fs, child)
        /\ ~IsDir(fs, child)
        /\ stack' = Advance(child)
        /\ ret' = Return(child, Len(log), encrypted_files, log)
    /\ UNCHANGED <<fs, fs0, argv, environ, pc, encrypted_files, log, listed, out, reported,
                   exit_code, calls, run, prev>>

\* encrypt_values(path) on a directory returns once every child was visited
ReturnDir ==
    /\ pc = "walk"
    /\ Len(stack) > 1
    /\ Top.todo = {}
    /\ stack' = SubSeq(stack, 1, Len(stack) - 1)
    /\ ret' = Return(Top.path, Top.base, encrypted_files, log)
    /\ UNCHANGED <<fs, fs0, argv, environ, pc, encrypted_files, log, listed, out, reported,
                   exit_code, calls, run, prev>>

---------------------------------------------------------------------------
(* main *)

\* no key: the error message and exit(1)
MainNoKey ==
    /\ pc = "start"
    /\ KeyMissing(args.age_key)
    /\ out' = out \cup {"error"}
    /\ pc' = "exit1"
    /\ exit_code' = 1
    /\ UNCHANGED <<fs, fs0, argv, environ, stack, encrypted_files, log, listed, ret,
                   reported, calls, run, prev>>

\* a key and a directory: construct the encryptor and call encrypt_values()
MainWalk ==
    /\ pc = "start"
    /\ ~KeyMissing(args.age_key)
    /\ IsDir(fs, args.dir)
    /\ out' = out \cup {"checking"}
    /\ encrypted_files' = 0
    /\ stack' = <<[path |-> MainFrame, todo |-> {args.dir}, base |-> 0]>>
    /\ pc' = "walk"
    /\ calls' = 1
    /\ UNCHANGED <<fs, fs0, argv, environ, log, listed, ret, reported, exit_code,
                   run, prev>>

\* a key and no directory: main falls off its end
MainNoDir ==
    /\ pc = "start"
    /\ ~KeyMissing(args.age_key)
    /\ ~IsDir(fs, args.dir)
    /\ pc' = "exit0"
    /\ exit_code' = 0
    /\ UNCHANGED <<fs, fs0, argv, environ, stack, encrypted_files, log, listed, ret, out,
                   reported, calls, run, prev>>

\* encrypt_values() returned to main: the summary message
MainSummary ==
    /\ pc = "walk"
    /\ Len(stack) = 1
    /\ Top.todo = {}
    /\ stack' = <<>>
    /\ reported' = encrypted_files
    /\ out' = out \cup {"summary"}
    /\ pc' = "done"
    /\ exit_code' = 0
    /\ UNCHANGED <<fs, fs0, argv, environ, encrypted_files, log, listed, ret, calls, run,
                   prev>>

---------------------------------------------------------------------------
(* Specifications *)

\* the process is started: a command line, an environment and a file system
Start(roots, flags, envs, k) ==
    /\ \E root \in roots, flag \in flags :
        /\ argv = [dir |-> root, age_key |-> flag]
        /\ fs \in InitialFileSystems(root, k)
    /\ environ \in envs
    /\ fs0 = fs
    /\ pc = "start"
    /\ stack = <<>>
    /\ encrypted_files = 0
    /\ log = <<>>
    /\ listed = {}
    /\ ret = NoReturn
    /\ out = {}
    /\ reported = NoCount
    /\ exit_code = Running
    /\ calls = 0
    /\ run = 1
    /\ prev = [pc |-> "none", written |-> {}]

Init == Start(RootNames, KeyArgs, EnvKeys, MaxEntries)

\* the tool is started again on the tree the previous run left
Rerun ==
    /\ pc \in {"done", "crashed", "exit0", "exit1"}
    /\ run < MaxRuns
    /\ run' = run + 1
    /\ prev' = [pc |-> pc, written |-> Written]
    /\ calls' = 0
    /\ fs0' = fs
    /\ pc' = "start"
    /\ stack' = <<>>
    /\ encrypted_files' = 0
    /\ log' = <<>>
    /\ listed' = {}
    /\ ret' = NoReturn
    /\ out' = {}
    /\ reported' = NoCount
    /\ exit_code' = Running
    /\ UNCHANGED <<fs, argv, environ>>

\* a caller that kept the encryptor calls encrypt_values() on it once more
SecondCall ==
    /\ pc = "done"
    /\ calls = 1
    /\ calls' = 2
    /\ stack' = <<[path |-> MainFrame, todo |-> {args.dir}, base |-> Len(log)]>>
    /\ pc' = "walk"
    /\ UNCHANGED <<fs, fs0, argv, environ, encrypted_files, log, listed, ret, out,
                   reported, exit_code, run, prev>>

Next ==
    \/ MainNoKey
    \/ MainWalk
    \/ MainNoDir
    \/ VisitFile
    \/ VisitDir
    \/ VisitSkip
    \/ ReturnDir
    \/ MainSummary

Spec == Init /\ [][Next]_vars

NextRerun == Next \/ Rerun

SpecRerun == Init /\ [][NextRerun]_vars

\* one root name and a key given on the command line
InitReuse == Start({nR}, {"age1pub"}, {None}, MaxReuseEntries)

NextReuse ==
    \/ MainWalk
    \/ VisitFile
    \/ VisitDir
    \/ VisitSkip
    \/ ReturnDir
    \/ MainSummary
    \/ SecondCall

SpecReuse == InitReuse /\ [][NextReuse]_vars

---------------------------------------------------------------------------
(* Properties *)

\* the pattern as a condition on a file's name
NameMatches(name) ==
    /\ EndsWith(name, DOT_YAML)
    /\ Contains(name, VALUES_DOT)
    /\ ~EndsWith(name, VALUES_ENC_YAML)

\* X.enc.yaml next to X.yaml
SiblingEncYaml(p) ==
    SubSeq(p, 1, Len(p) - Len(DOT_YAML)) \o DOT_ENC_YAML

\* the regular files below the root when the run started
FilesAtStart == {p \in DOMAIN fs0 : p # argv.dir /\ IsFile(fs0, p)}

KeyGiven == argv.age_key \notin {None, ""} \/ (argv.age_key = None /\ environ # None)

ScenarioB ==
    MkFs(nR, "dir", {<<Join(nR, nSub), "dir">>,
                     <<Join(Join(nR, nSub), nValuesDevYaml), "plain">>,
                     <<Join(Join(nR, nSub), nValuesEncYaml), "plain">>})

\* C1: after a complete run of main the files written are exactly the
\* X.enc.yaml next to each regular file X.yaml below the root whose name ends
\* with '.yaml', contains 'values.' and does not end with 'values.enc.yaml'.
C1_WritesExactlySiblings ==
    pc = "done" =>
        Written = {SiblingEncYaml(p) : p \in {q \in FilesAtStart : NameMatches(Basename(q))}}

\* C2: a second run on the tree the first run left writes the same set of
\* destinations as the first run, and never fails on a destination because
\* the file is already there.
C2_SecondRunSameDestinations ==
    (run = 2 /\ prev.pc = "done") =>
        /\ pc = "done" => Written = prev.written
        /\ \A i \in 1..Len(log) :
              (log[i].tool # "notool" /\ log[i].dest \in prev.written) => log[i].wrote

\* C3: a file whose name does not match the pattern is never passed to the
\* encryptor and never written, whatever its ancestors and siblings are called.
C3_NonMatchingUntouched ==
    \A p \in FilesAtStart :
        ~NameMatches(Basename(p)) => p \notin Invoked /\ p \notin Written

\* C4: a file named values.enc.yaml is never passed to the encryptor, and a
\* run over sub/values.dev.yaml and sub/values.enc.yaml writes
\* sub/values.dev.enc.yaml only, leaves sub/values.enc.yaml as it was and
\* reports the count 1.
C4_ValuesEncYamlNotEncrypted ==
    /\ \A p \in Invoked : Basename(p) # nValuesEncYaml
    /\ (fs0 = ScenarioB /\ pc = "done") =>
          /\ Written = {Join(Join(nR, nSub), <<"v", "a", "l", "u", "e", "s", ".", "d", "e", "v", ".", "e", "n", "c", ".", "y", "a", "m", "l">>)}
          /\ fs[Join(Join(nR, nSub), nValuesEncYaml)] = "plain"
          /\ reported = 1

C4_Witness ==
    /\ fs0 = ScenarioB
    /\ pc = "done"
    /\ Join(Join(nR, nSub), nValuesEncYaml) \in DOMAIN fs

\* C5: the count in the summary message is the number of distinct
\* destination files written in the run.
C5_CountIsFilesWritten ==
    pc = "done" => reported = Cardinality(Written)

C5_Witness ==
    /\ pc = "done"
    /\ reported = 2
    /\ \E i \in 1..Len(log) : log[i].tool = "fail"

\* C6: without a key main reports the configuration error and exits with 1
\* before any traversal: nothing listed, nothing passed to the encryptor,
\* nothing written, count 0.
C6_NoKeyFailsFast ==
    (~KeyGiven /\ pc # "start") =>
        /\ pc = "exit1"
        /\ exit_code = 1
        /\ out = {"error"}
        /\ listed = {}
        /\ log = <<>>
        /\ fs = fs0
        /\ encrypted_files = 0
        /\ reported = NoCount

C6_Witness ==
    /\ pc = "exit1"
    /\ argv.age_key = ""
    /\ environ # None
    /\ IsDir(fs, argv.dir)
    /\ \E p \in FilesAtStart : NameMatches(Basename(p))

\* C7: with a key and a root that is no directory main does nothing and
\* ends with exit code 0: no traversal, no encryptor call, nothing written,
\* nothing printed.
C7_NotADirectoryIsNoOp ==
    (KeyGiven /\ (argv.dir \notin DOMAIN fs0 \/ fs0[argv.dir] # "dir") /\ pc # "start") =>
        /\ pc = "exit0"
        /\ exit_code = 0
        /\ out = {}
        /\ listed = {}
        /\ log = <<>>
        /\ fs = fs0
        /\ reported = NoCount

C7_Witness ==
    /\ pc = "exit0"
    /\ argv.dir \in DOMAIN fs
    /\ fs[argv.dir] = "plain"
    /\ NameMatches(argv.dir)

\* C8 as stated: every encrypt_values call, nested or repeated, returns the
\* number of files encrypted in its subtree during that call.
C8_ReturnsSubtreeCount ==
    ret.call > 0 => ret.value = ret.during

\* C8 as amended: every encrypt_values call returns the number of files the
\* encryptor object encrypted since it was constructed; that is the number
\* for the subtree in the first top-level call.
C8_ReturnsRunningTotal ==
    ret.call > 0 =>
        /\ ret.value = ret.total
        /\ (ret.top /\ ret.call = 1) => ret.value = ret.during

C8_Witness ==
    /\ ret.call > 0
    /\ ret.call = 2
    /\ ~ret.top
    /\ ret.during = 1
    /\ ret.value = 3

\* C9: the counter counts the successful encryptions only: it is the number
\* of files for which the tool succeeded.
C9_CountsSuccessesOnly ==
    encrypted_files = Cardinality({i \in 1..Len(log) : log[i].tool = "ok" /\ log[i].wrote})

\* C10: no path is passed to the encryptor twice in a run, and no file the
\* run wrote is passed to the encryptor later in that run.
C10_AttemptedOnce ==
    \A i \in 1..Len(log) : \A j \in 1..(i - 1) :
        /\ log[i].path # log[j].path
        /\ log[j].wrote => log[i].path # log[j].dest

=============================================================================
